---- MODULE Spec2Model ----
(***************************************************************************)
(* Credential service: the status-list credential-status engine.           *)
(*                                                                         *)
(* The HTTP handlers (controllers/credentials.ts) and the agent wrappers   *)
(* (helpers/helpers.ts: LocalIdentity, Veramo) are translated from the     *)
(* source.  The agent methods they call (cheqdRevokeCredentials, ...) and  *)
(* the ledger resource store are external collaborators: their steps       *)
(* (fetch, mutate, publish) follow sections 4.4 and 6 of the               *)
(* specification.                                                          *)
(***************************************************************************)
EXTENDS Integers, Sequences, FiniteSets, TLC

\* ------------------------------------------------------------------ bounds
MaxLen == 2
MaxOps == 2

\* ------------------------------------------------------------- value sets
Keys == {"k1"}
AllKeys == {"k1", "k2"}
Reqs == {"r1", "r2"}
Lengths == 1..MaxLen
Indices == 0..MaxLen
IndexSets == {{0}, {1}, {0, MaxLen}}
Purposes == {"revocation", "suspension"}
Undefined == "undefined"
PurposeInputs == Purposes \cup {Undefined}
PublishInputs == {"true", "false", Undefined}
TransientErrors == {"LedgerTimeout", "NetworkError"}
FetchErrors == TransientErrors \cup {"NotFound"}

\* ------------------------------------------------------- status list model
ZeroBits(n) == [i \in 1..n |-> 0]

BitStrings == UNION {[1..n -> {0, 1}] : n \in Lengths}

\* Payloads a caller hands to the publish endpoint: no data, a cleared list of
\* each length, and a fully set list.
Payloads == {<<>>} \cup {ZeroBits(n) : n \in Lengths} \cup {[i \in 1..MaxLen |-> 1]}

InRange(bits, index) == 0 <= index /\ index < Len(bits)

setBit(bits, index, value) == [bits EXCEPT ![index + 1] = value]

RECURSIVE setBits(_, _, _)
setBits(bits, indices, value) ==
    IF indices = {} THEN bits
    ELSE LET i == CHOOSE x \in indices : TRUE
         IN setBits(setBit(bits, i, value), indices \ {i}, value)

getBit(bits, index) == bits[index + 1]

\* ------------------------------------------------------------------ ledger
RevocationType == "StatusList2021Revocation"
SuspensionType == "StatusList2021Suspension"

TypeOfPurpose(p) == IF p = "revocation" THEN RevocationType ELSE SuspensionType
PurposeOfType(t) == IF t = RevocationType THEN "revocation" ELSE "suspension"

Revision(bits, type) == [bits |-> bits, type |-> type]

VARIABLES ledger, req, ops, reserved, codec, http, pure

\* The allocator's reservations, the codec's registers, the exchange of
\* the credential controller and the arguments and results of the helper
\* functions take no part in the update path.
other == <<reserved, codec, http, pure>>

vars == <<ledger, req, ops, reserved, codec, http, pure>>

Exists(k) == ledger[k] # <<>>
Version(k) == Len(ledger[k])
Current(k) == ledger[k][Len(ledger[k])]

\* ------------------------------------------------- wrappers (helpers.ts)
CallOf(method, indices, publish) ==
    [method |-> method, indices |-> indices,
     publish |-> publish, returnUpdatedStatusList |-> ~publish]

MethodOfAction(statusAction) ==
    CASE statusAction = "revoke" -> "cheqdRevokeCredentials"
      [] statusAction = "suspend" -> "cheqdSuspendCredentials"
      [] statusAction = "reinstate" -> "cheqdUnsuspendCredentials"

\* Variant: only the first index of the request is handed to the agent.
updateStatusList2021_FirstIndex(statusAction, indices, publish) ==
    CallOf(MethodOfAction(statusAction),
           {CHOOSE i \in indices : \A j \in indices : i <= j}, publish)

\* Variant: the suspend case calls the unsuspend method of the agent.
updateStatusList2021_SuspendUnsuspends(statusAction, indices, publish) ==
    CallOf(IF statusAction = "suspend" THEN "cheqdUnsuspendCredentials"
           ELSE MethodOfAction(statusAction), indices, publish)

\* Variant: the reinstate case calls the revoke method of the agent.
updateStatusList2021_ReinstateRevokes(statusAction, indices, publish) ==
    CallOf(IF statusAction = "reinstate" THEN "cheqdRevokeCredentials"
           ELSE MethodOfAction(statusAction), indices, publish)

\* Variant: the revoke case publishes whatever the caller asked (as the array
\* branch of revokeCredentials does).
updateStatusList2021_RevokePublishes(statusAction, indices, publish) ==
    [method |-> MethodOfAction(statusAction), indices |-> indices,
     publish |-> IF statusAction = "revoke" THEN TRUE ELSE publish,
     returnUpdatedStatusList |-> ~publish]

\* Veramo.updateStatusList2021: the agent call chosen by statusAction.
updateStatusList2021(statusAction, indices, publish) ==
    CASE statusAction = "revoke" ->
            [method |-> "cheqdRevokeCredentials", indices |-> indices,
             publish |-> publish, returnUpdatedStatusList |-> ~publish]
      [] statusAction = "suspend" ->
            [method |-> "cheqdSuspendCredentials", indices |-> indices,
             publish |-> publish, returnUpdatedStatusList |-> ~publish]
      [] statusAction = "reinstate" ->
            [method |-> "cheqdUnsuspendCredentials", indices |-> indices,
             publish |-> publish, returnUpdatedStatusList |-> ~publish]
      [] OTHER ->
            \* no case of the switch matches: no agent call, undefined is returned
            [method |-> Undefined, indices |-> {},
             publish |-> FALSE, returnUpdatedStatusList |-> FALSE]

\* A parameter declared `publish = true`: undefined takes the default.
DefaultTrue(publish) == IF publish = Undefined THEN TRUE ELSE publish = "true"

\* Veramo.revokeCredentials
revokeCredentials(isArray, indices, publish) ==
    IF isArray
    THEN [method |-> "cheqdRevokeCredentials", indices |-> indices,
          publish |-> TRUE, returnUpdatedStatusList |-> FALSE]
    ELSE [method |-> "cheqdRevokeCredential", indices |-> indices,
          publish |-> DefaultTrue(publish), returnUpdatedStatusList |-> FALSE]

\* Veramo.suspendCredentials
suspendCredentials(isArray, indices, publish) ==
    IF isArray
    THEN [method |-> "cheqdSuspendCredentials", indices |-> indices,
          publish |-> DefaultTrue(publish), returnUpdatedStatusList |-> FALSE]
    ELSE [method |-> "cheqdSuspendCredential", indices |-> indices,
          publish |-> DefaultTrue(publish), returnUpdatedStatusList |-> FALSE]

\* Veramo.unsuspendCredentials
unsuspendCredentials(isArray, indices, publish) ==
    IF isArray
    THEN [method |-> "cheqdUnsuspendCredentials", indices |-> indices,
          publish |-> DefaultTrue(publish), returnUpdatedStatusList |-> FALSE]
    ELSE [method |-> "cheqdUnsuspendCredential", indices |-> indices,
          publish |-> DefaultTrue(publish), returnUpdatedStatusList |-> FALSE]

\* Veramo.createStatusList2021: statusPurpose || 'revocation'
createStatusList2021(statusPurpose) ==
    IF statusPurpose = Undefined THEN "revocation" ELSE statusPurpose

\* Veramo.broadcastStatusList2021: resourceType of the published payload
broadcastStatusList2021(statusPurpose) ==
    IF statusPurpose = "revocation" THEN RevocationType ELSE SuspensionType

\* -------------------------------------- controllers (credentials.ts)
\* CredentialController.revoke: request.query.publish === 'false' ? false : true
revoke(queryPublish, bodyPublish) ==
    IF queryPublish = "false" THEN "false" ELSE "true"

\* CredentialController.suspend: passes request.body.publish
suspend(queryPublish, bodyPublish) == bodyPublish

\* CredentialController.reinstate: passes request.body.publish
reinstate(queryPublish, bodyPublish) == bodyPublish

\* LocalIdentity.revokeCredentials / suspendCredentials / reinstateCredentials
AgentCall(endpoint, isArray, indices, queryPublish, bodyPublish) ==
    CASE endpoint = "credential/revoke" ->
            revokeCredentials(isArray, indices, revoke(queryPublish, bodyPublish))
      [] endpoint = "credential/suspend" ->
            suspendCredentials(isArray, indices, suspend(queryPublish, bodyPublish))
      [] endpoint = "credential/reinstate" ->
            unsuspendCredentials(isArray, indices, reinstate(queryPublish, bodyPublish))

CredentialEndpoints == {"credential/revoke", "credential/suspend", "credential/reinstate"}
StatusActions == {"revoke", "suspend", "reinstate"}

\* statusAction as it can arrive in a request: a case of the switch or not.
ActionInputs == StatusActions \cup {"delete"}

\* ------------------------------------------------- agent (section 4.4)
ActionOfMethod(method) ==
    CASE method \in {"cheqdRevokeCredentials", "cheqdRevokeCredential"} -> "revoke"
      [] method \in {"cheqdSuspendCredentials", "cheqdSuspendCredential"} -> "suspend"
      [] method \in {"cheqdUnsuspendCredentials", "cheqdUnsuspendCredential"} -> "reinstate"

\* Mutate: validate every index and the action, then apply all bits.
MutateError(bits, type, action, indices) ==
    IF \E i \in indices : ~InRange(bits, i) THEN "IndexOutOfRange"
    ELSE IF action = "reinstate" /\ PurposeOfType(type) # "suspension" THEN "InvalidAction"
    ELSE ""

MutateBits(bits, action, indices) ==
    setBits(bits, indices, IF action = "reinstate" THEN 0 ELSE 1)

\* ------------------------------------------------------------ requests
UpdateEndpoints == {"credential-status/update"} \cup CredentialEndpoints

IsUpdate(r) == req[r].endpoint \in UpdateEndpoints

IdleReq ==
    [pc |-> "idle", endpoint |-> "", key |-> "", action |-> "", indices |-> {},
     asked |-> "",
     method |-> "", callIndices |-> {}, publish |-> FALSE,
     returnUpdatedStatusList |-> FALSE,
     statusListVersion |-> 0, pinned |-> 0,
     base |-> 0, bits |-> <<>>, type |-> "", error |-> "", returned |-> <<>>,
     version |-> 0, index |-> -1, value |-> FALSE, startedAt |-> 0]

Busy(r) == req[r].pc \in {"fetching", "mutating", "publishing"}
Finished(r) == req[r].pc \in {"done", "failed"}

NoCodec == [pc |-> "off"]

\* No helper function is being applied.
NoPure == [pc |-> "off"]

\* No request is with the credential controller.
IdleHttp ==
    [pc |-> "idle", handler |-> "", errors |-> <<>>, verifyStatus |-> "",
     policy |-> "", call |-> [method |-> "", fetchList |-> "", credentialStatus |-> ""],
     calls |-> 0, outcome |-> "", status |-> 0, body |-> [error |-> "", verified |-> ""]]

Init ==
    /\ ledger = [k \in AllKeys |-> <<>>]
    /\ req = [r \in Reqs |-> IdleReq]
    /\ ops = 0
    /\ reserved = [k \in AllKeys |-> {}]
    /\ http = IdleHttp
    /\ pure = NoPure
    /\ codec = NoCodec

ActionOfEndpoint(endpoint) ==
    CASE endpoint = "credential/revoke" -> "revoke"
      [] endpoint = "credential/suspend" -> "suspend"
      [] endpoint = "credential/reinstate" -> "reinstate"

\* Variant: the agent is called with fetchList: false and works on the list
\* it holds, without a fetch.
Calling_NoFetch(r, endpoint, k, action, indices, asked, call) ==
    [IdleReq EXCEPT !.pc = "mutating", !.endpoint = endpoint, !.key = k,
                    !.action = action, !.indices = indices, !.asked = asked,
                    !.method = call.method, !.callIndices = call.indices,
                    !.publish = call.publish,
                    !.returnUpdatedStatusList = call.returnUpdatedStatusList]

Calling(r, endpoint, k, action, indices, asked, call) ==
    [IdleReq EXCEPT !.pc = "fetching", !.endpoint = endpoint, !.key = k,
                    !.action = action, !.indices = indices, !.asked = asked,
                    !.method = call.method, !.callIndices = call.indices,
                    !.publish = call.publish,
                    !.returnUpdatedStatusList = call.returnUpdatedStatusList]

\* Variant: the first revision is written with every bit set.
CreateStatusList_AllSet(k, statusPurpose, length) ==
    /\ ~Exists(k)
    /\ ledger' = [ledger EXCEPT ![k] =
           <<Revision([i \in 1..length |-> 1], TypeOfPurpose(createStatusList2021(statusPurpose)))>>]
    /\ UNCHANGED <<req, ops, other>>

\* createStatusList2021: the agent writes the first revision, all bits zero.
CreateStatusList(k, statusPurpose, length) ==
    /\ ~Exists(k)
    /\ ledger' = [ledger EXCEPT ![k] =
           <<Revision(ZeroBits(length), TypeOfPurpose(createStatusList2021(statusPurpose)))>>]
    /\ UNCHANGED <<req, ops, other>>

\* Variant: an update starts only when no other request is in flight.
StartUpdate_GlobalLock(r, k, statusAction, indices, publish) ==
    /\ req[r].pc = "idle"
    /\ \A q \in Reqs : req[q].pc = "idle"
    /\ ops < MaxOps
    /\ req' = [req EXCEPT ![r] =
           Calling(r, "credential-status/update", k, statusAction, indices,
                   IF publish THEN "true" ELSE "false",
                   updateStatusList2021(statusAction, indices, publish))]
    /\ ops' = ops + 1
    /\ UNCHANGED <<ledger, other>>

\* LocalIdentity.updateStatusList2021 -> Veramo.updateStatusList2021, up to
\* the agent's first await (the ledger fetch).
StartUpdate(r, k, statusAction, indices, publish) ==
    /\ req[r].pc = "idle"
    /\ ops < MaxOps
    /\ LET call == updateStatusList2021(statusAction, indices, publish)
       IN req' = [req EXCEPT ![r] =
              IF call.method = Undefined
              THEN [IdleReq EXCEPT !.pc = "done", !.endpoint = "credential-status/update",
                                   !.key = k, !.action = statusAction,
                                   !.indices = indices,
                                   !.asked = IF publish THEN "true" ELSE "false",
                                   !.method = call.method]
              ELSE Calling(r, "credential-status/update", k, statusAction, indices,
                           IF publish THEN "true" ELSE "false", call)]
    /\ ops' = ops + 1
    /\ UNCHANGED <<ledger, other>>

\* Variant: statusListVersion is not handed to the agent.
statusListVersion_Dropped(version) == 0

\* Veramo.updateStatusList2021: statusListVersion: statusOptions.statusListVersion
\* (0 stands for undefined, no version pinned).
statusListVersion(version) == version

\* Veramo.updateStatusList2021 with statusOptions.statusListVersion given.
StartPinnedUpdate(r, k, statusAction, indices, publish, version) ==
    /\ req[r].pc = "idle"
    /\ ops < MaxOps
    /\ req' = [req EXCEPT ![r] =
           [Calling(r, "credential-status/update", k, statusAction, indices,
                    IF publish THEN "true" ELSE "false",
                    updateStatusList2021(statusAction, indices, publish))
              EXCEPT !.statusListVersion = version,
                     !.pinned = statusListVersion(version)]]
    /\ ops' = ops + 1
    /\ UNCHANGED <<ledger, other>>

\* CredentialController.revoke / suspend / reinstate, up to the agent's
\* first await.
StartCredential(r, endpoint, k, isArray, indices, queryPublish, bodyPublish) ==
    /\ req[r].pc = "idle"
    /\ ops < MaxOps
    /\ isArray \/ Cardinality(indices) = 1
    /\ req' = [req EXCEPT ![r] =
           Calling(r, endpoint, k, ActionOfEndpoint(endpoint), indices, queryPublish,
                   AgentCall(endpoint, isArray, indices, queryPublish, bodyPublish))]
    /\ ops' = ops + 1
    /\ UNCHANGED <<ledger, other>>

\* LocalIdentity.broadcastStatusList2021 -> Veramo.broadcastStatusList2021
StartBroadcast(r, k, data, statusPurpose) ==
    /\ req[r].pc = "idle"
    /\ ops < MaxOps
    /\ req' = [req EXCEPT ![r] =
           IF data = <<>>
           THEN [IdleReq EXCEPT !.pc = "failed", !.endpoint = "credential-status/publish",
                                !.key = k, !.asked = "true",
                                !.error = "StatusList data is required"]
           ELSE [IdleReq EXCEPT !.pc = "publishing", !.endpoint = "credential-status/publish",
                                !.key = k, !.asked = "true",
                                !.method = "cheqdBroadcastStatusList2021",
                                !.publish = TRUE, !.bits = data,
                                !.type = broadcastStatusList2021(statusPurpose)]]
    /\ ops' = ops + 1
    /\ UNCHANGED <<ledger, other>>

\* Fetch: the current revision of the list.
FetchOk(r) ==
    /\ req[r].pc = "fetching"
    /\ req[r].endpoint \in UpdateEndpoints
    /\ Exists(req[r].key)
    /\ req[r].pinned \in {0, Version(req[r].key)}
    /\ req' = [req EXCEPT ![r].pc = "mutating",
                          ![r].base = Version(req[r].key),
                          ![r].bits = Current(req[r].key).bits,
                          ![r].type = Current(req[r].key).type]
    /\ UNCHANGED <<ledger, ops, other>>

\* Fetch: the request pins a version that is not the latest revision.
FetchVersionMismatch(r) ==
    /\ req[r].pc = "fetching"
    /\ Exists(req[r].key)
    /\ req[r].pinned \notin {0, Version(req[r].key)}
    /\ req' = [req EXCEPT ![r].pc = "failed", ![r].error = "VersionMismatch"]
    /\ UNCHANGED <<ledger, ops, other>>

FetchNotFound(r) ==
    /\ req[r].pc = "fetching"
    /\ ~Exists(req[r].key)
    /\ req' = [req EXCEPT ![r].pc = "failed", ![r].error = "NotFound"]
    /\ UNCHANGED <<ledger, ops, other>>

\* Variant: a fetch that gets no answer is never cut off by a timeout.
FetchFail_NoTimeout(r, e) ==
    /\ req[r].pc = "fetching"
    /\ e # "LedgerTimeout"
    /\ req' = [req EXCEPT ![r].pc = "failed", ![r].error = e]
    /\ UNCHANGED <<ledger, ops, other>>

FetchFail(r, e) ==
    /\ req[r].pc = "fetching"
    /\ req' = [req EXCEPT ![r].pc = "failed", ![r].error = e]
    /\ UNCHANGED <<ledger, ops, other>>

\* Mutate and decide publish.
Mutate(r) ==
    /\ req[r].pc = "mutating"
    /\ LET action == ActionOfMethod(req[r].method)
           error == MutateError(req[r].bits, req[r].type, action, req[r].callIndices)
           bits == MutateBits(req[r].bits, action, req[r].callIndices)
       IN req' = [req EXCEPT ![r] =
              IF error # ""
              THEN [req[r] EXCEPT !.pc = "failed", !.error = error, !.bits = <<>>]
              ELSE IF req[r].publish
              THEN [req[r] EXCEPT !.pc = "publishing", !.bits = bits]
              ELSE [req[r] EXCEPT !.pc = "done", !.bits = <<>>,
                                  !.returned = IF req[r].returnUpdatedStatusList
                                               THEN bits ELSE <<>>]]
    /\ UNCHANGED <<ledger, ops, other>>

\* Variant: the ledger accepts every revision (last writer wins).
Accepts_Any(base, version) == TRUE

\* The ledger accepts a revision computed from the latest one; a payload
\* published without a fetch (base 0) names no revision it was computed from.
Accepts(base, version) == base \in {0, version}

\* Variant: the acknowledged revision replaces the current one.
PublishAck_Overwrite(r) ==
    /\ req[r].pc = "publishing"
    /\ Exists(req[r].key)
    /\ Accepts(req[r].base, Version(req[r].key))
    /\ ledger' = [ledger EXCEPT ![req[r].key] =
                     [@ EXCEPT ![Len(@)] = Revision(req[r].bits, req[r].type)]]
    /\ req' = [req EXCEPT ![r].pc = "done", ![r].bits = <<>>,
                          ![r].version = Version(req[r].key) + 1]
    /\ UNCHANGED <<ops, other>>

\* Publish: the ledger acknowledges a new revision.
PublishAck(r) ==
    /\ req[r].pc = "publishing"
    /\ Exists(req[r].key)
    /\ Accepts(req[r].base, Version(req[r].key))
    /\ ledger' = [ledger EXCEPT ![req[r].key] =
                     Append(@, Revision(req[r].bits, req[r].type))]
    /\ req' = [req EXCEPT ![r].pc = "done", ![r].bits = <<>>,
                          ![r].version = Version(req[r].key) + 1]
    /\ UNCHANGED <<ops, other>>

PublishConflict(r) ==
    /\ req[r].pc = "publishing"
    /\ Exists(req[r].key)
    /\ ~Accepts(req[r].base, Version(req[r].key))
    /\ req' = [req EXCEPT ![r].pc = "failed", ![r].bits = <<>>,
                          ![r].error = "PublishConflict"]
    /\ UNCHANGED <<ledger, ops, other>>

PublishNotFound(r) ==
    /\ req[r].pc = "publishing"
    /\ ~Exists(req[r].key)
    /\ req' = [req EXCEPT ![r].pc = "failed", ![r].bits = <<>>,
                          ![r].error = "NotFound"]
    /\ UNCHANGED <<ledger, ops, other>>

\* Variant: the revision of a publish that failed is written all the same.
PublishFail_PartialWrite(r, e) ==
    /\ req[r].pc = "publishing"
    /\ req' = [req EXCEPT ![r].pc = "failed", ![r].bits = <<>>, ![r].error = e]
    /\ ledger' = [ledger EXCEPT ![req[r].key] =
                     Append(@, Revision(req[r].bits, req[r].type))]
    /\ UNCHANGED <<ops, other>>

PublishFail(r, e) ==
    /\ req[r].pc = "publishing"
    /\ req' = [req EXCEPT ![r].pc = "failed", ![r].bits = <<>>, ![r].error = e]
    /\ UNCHANGED <<ledger, ops, other>>

\* Variant: the handler calls the agent again after a transient failure.
Respond_RetryTransient(r) ==
    /\ Finished(r)
    /\ req' = [req EXCEPT ![r] =
           IF req[r].error \in TransientErrors /\ req[r].method # "cheqdBroadcastStatusList2021"
           THEN [req[r] EXCEPT !.pc = "fetching", !.error = "", !.base = 0]
           ELSE IdleReq]
    /\ UNCHANGED <<ledger, ops, other>>

\* The response is sent; the handler ends.
Respond(r) ==
    /\ Finished(r)
    /\ req' = [req EXCEPT ![r] = IdleReq]
    /\ UNCHANGED <<ledger, ops, other>>

Next ==
    \/ \E k \in Keys, p \in PurposeInputs, n \in Lengths : CreateStatusList(k, p, n)
    \/ \E r \in Reqs, k \in Keys, a \in StatusActions, s \in IndexSets, p \in BOOLEAN :
          StartUpdate(r, k, a, s, p)
    \/ \E r \in Reqs, k \in Keys, d \in Payloads, p \in PurposeInputs :
          StartBroadcast(r, k, d, p)
    \/ \E r \in Reqs : FetchOk(r)
    \/ \E r \in Reqs : FetchNotFound(r)
    \/ \E r \in Reqs, e \in TransientErrors : FetchFail(r, e)
    \/ \E r \in Reqs : Mutate(r)
    \/ \E r \in Reqs : PublishAck(r)
    \/ \E r \in Reqs : PublishConflict(r)
    \/ \E r \in Reqs : PublishNotFound(r)
    \/ \E r \in Reqs, e \in TransientErrors : PublishFail(r, e)
    \/ \E r \in Reqs : Respond(r)

Spec == Init /\ [][Next]_vars

\* The credential endpoints, one request at a time: with a single request in
\* flight the ledger cannot advance under it, so no publish is rejected.
CredentialReqs == {"r1"}

NextCredential ==
    \/ \E k \in Keys, p \in PurposeInputs, n \in Lengths : CreateStatusList(k, p, n)
    \/ \E r \in CredentialReqs, e \in CredentialEndpoints, k \in Keys, arr \in BOOLEAN,
          s \in IndexSets, q \in PublishInputs, b \in PublishInputs :
          StartCredential(r, e, k, arr, s, q, b)
    \/ \E r \in Reqs : FetchOk(r)
    \/ \E r \in Reqs : FetchNotFound(r)
    \/ \E r \in Reqs, e \in TransientErrors : FetchFail(r, e)
    \/ \E r \in Reqs : Mutate(r)
    \/ \E r \in Reqs : PublishAck(r)
    \/ \E r \in Reqs, e \in TransientErrors : PublishFail(r, e)
    \/ \E r \in Reqs : Respond(r)

SpecCredential == Init /\ [][NextCredential]_vars

\* Updates that pin a statusListVersion, one request after the other.
SequentialReqs == {"r1"}
PinnedVersions == 0..MaxOps

NextPinned ==
    \/ \E k \in Keys, p \in PurposeInputs, n \in Lengths : CreateStatusList(k, p, n)
    \/ \E r \in SequentialReqs, k \in Keys, a \in StatusActions, s \in IndexSets,
          p \in BOOLEAN, v \in PinnedVersions :
          StartPinnedUpdate(r, k, a, s, p, v)
    \/ \E r \in Reqs : FetchOk(r)
    \/ \E r \in Reqs : FetchNotFound(r)
    \/ \E r \in Reqs : FetchVersionMismatch(r)
    \/ \E r \in Reqs, e \in TransientErrors : FetchFail(r, e)
    \/ \E r \in Reqs : Mutate(r)
    \/ \E r \in Reqs : PublishAck(r)
    \/ \E r \in Reqs, e \in TransientErrors : PublishFail(r, e)
    \/ \E r \in Reqs : Respond(r)

SpecPinned == Init /\ [][NextPinned]_vars

TypeOK ==
    /\ ops \in 0..MaxOps
    /\ \A k \in Keys : \A i \in 1..Len(ledger[k]) : ledger[k][i].bits \in BitStrings

\* ------------------------------------------------------------- properties

\* The revision a request fetched.
Fetched(r) == ledger[req[r].key][req[r].base]

\* The request took a step that ended its publish with an acknowledgment.
Acked(r) == req[r].pc = "publishing" /\ req'[r].pc = "done"

\* C1: for one key, at most one update request is between the start of its
\* fetch and the end of its publish.
C1_OneUpdateInFlightPerKey ==
    \A r1, r2 \in Reqs :
        (r1 # r2 /\ IsUpdate(r1) /\ IsUpdate(r2) /\ req[r1].key = req[r2].key /\ Busy(r1))
            => ~Busy(r2)

\* C2: two publishing updates of one key on disjoint index sets both commit
\* (no ledger failure, no invalid input), and the published list has the bits
\* of both.
Committing(r) ==
    /\ IsUpdate(r) /\ Finished(r)
    /\ req[r].asked = "true"
    /\ req[r].action \in {"revoke", "suspend"}
    /\ req[r].error \notin FetchErrors \cup {"IndexOutOfRange", "InvalidAction"}

C2_NoLostUpdate ==
    \A r1, r2 \in Reqs :
        (/\ r1 # r2 /\ Committing(r1) /\ Committing(r2)
         /\ req[r1].key = req[r2].key
         /\ req[r1].indices \cap req[r2].indices = {})
            => /\ req[r1].pc = "done" /\ req[r2].pc = "done"
               /\ \A i \in req[r1].indices \cup req[r2].indices :
                      /\ InRange(Current(req[r1].key).bits, i)
                      /\ getBit(Current(req[r1].key).bits, i) = 1

\* An update that has fetched a list in which one of its indices is out of
\* range.
OutOfRange(r) ==
    /\ IsUpdate(r) /\ req[r].base # 0
    /\ \E i \in req[r].indices : ~InRange(Fetched(r).bits, i)

\* C3: an update with an index outside [0, length) fails with
\* IndexOutOfRange before any bit is flipped: its local copy stays the
\* fetched list until it fails, it never publishes or returns a list, and no
\* step it takes changes the ledger.
C3_OutOfRangeFailsUnchanged ==
    /\ [](\A r \in Reqs : OutOfRange(r) =>
            /\ req[r].pc \in {"mutating", "failed"}
            /\ req[r].pc = "mutating" => req[r].bits = Fetched(r).bits
            /\ req[r].pc = "failed" =>
                  /\ req[r].error = "IndexOutOfRange"
                  /\ req[r].bits = <<>> /\ req[r].returned = <<>>
                  /\ req[r].version = 0)
    /\ [][\A r \in Reqs : (OutOfRange(r) /\ req'[r] # req[r]) => ledger' = ledger]_vars

\* C3 witness: a request with one valid and one out-of-range index has failed.
C3_Witness ==
    \E r \in Reqs :
        /\ OutOfRange(r) /\ req[r].pc = "failed" /\ req[r].error = "IndexOutOfRange"
        /\ \E i \in req[r].indices : InRange(Fetched(r).bits, i)
        /\ Current(req[r].key).bits = Fetched(r).bits

\* A reinstate that has fetched a revocation list.
ReinstateOfRevocation(r) ==
    /\ IsUpdate(r) /\ req[r].base # 0
    /\ req[r].action = "reinstate"
    /\ PurposeOfType(Fetched(r).type) = "revocation"

\* C4: a reinstate against a revocation list fails with InvalidAction
\* (IndexOutOfRange when an index is out of range as well), flips no bit and
\* publishes no version.
C4_ReinstateOfRevocationFails ==
    /\ [](\A r \in Reqs : ReinstateOfRevocation(r) =>
            /\ req[r].pc \in {"mutating", "failed"}
            /\ req[r].pc = "mutating" => req[r].bits = Fetched(r).bits
            /\ req[r].pc = "failed" =>
                  /\ req[r].error =
                        IF OutOfRange(r) THEN "IndexOutOfRange" ELSE "InvalidAction"
                  /\ req[r].bits = <<>> /\ req[r].returned = <<>>
                  /\ req[r].version = 0)
    /\ [][\A r \in Reqs :
            (ReinstateOfRevocation(r) /\ req'[r] # req[r]) => ledger' = ledger]_vars

\* C4 witness: a reinstate of a set bit of a revocation list failed with
\* InvalidAction and the bit is still set.
C4_Witness ==
    \E r \in Reqs :
        /\ ReinstateOfRevocation(r) /\ req[r].pc = "failed"
        /\ req[r].error = "InvalidAction"
        /\ \E i \in req[r].indices :
               InRange(Current(req[r].key).bits, i) /\ getBit(Current(req[r].key).bits, i) = 1

\* An update whose fetched revision is no longer the latest one.
Stale(r) ==
    /\ IsUpdate(r) /\ req[r].pc = "publishing"
    /\ req[r].base # Version(req[r].key)

\* C5: when the on-ledger version advanced between an update's fetch and its
\* publish, the publish ends in failure (PublishConflict once the ledger
\* answers, a transient error otherwise), the local bits are discarded and the
\* ledger is left as it is; a committed update always built on the latest
\* revision.
C5_PublishConflict ==
    /\ [][\A r \in Reqs : (Stale(r) /\ req'[r] # req[r]) =>
            /\ req'[r].pc = "failed"
            /\ req'[r].error \in {"PublishConflict"} \cup TransientErrors
            /\ req'[r].bits = <<>>
            /\ ledger' = ledger]_vars
    /\ [](\A r \in Reqs : (IsUpdate(r) /\ req[r].error = "PublishConflict") =>
            /\ req[r].pc = "failed" /\ req[r].bits = <<>> /\ req[r].version = 0
            /\ req[r].base < Version(req[r].key))
    /\ [](\A r \in Reqs : (IsUpdate(r) /\ req[r].version # 0) =>
            req[r].version = req[r].base + 1)

\* C5 witness: an update failed with PublishConflict and the newer revision
\* is the current one.
C5_Witness ==
    \E r \in Reqs :
        /\ IsUpdate(r) /\ req[r].pc = "failed" /\ req[r].error = "PublishConflict"
        /\ Version(req[r].key) = req[r].base + 1
        /\ Current(req[r].key).bits # Fetched(r).bits

\* A status-list update called with publish=false.
Unpublished(r) == req[r].endpoint = "credential-status/update" /\ req[r].asked = "false"

\* C6: returnUpdatedStatusList is set exactly when publish is false; an
\* update with publish=false never publishes, returns the updated list, and
\* no step it takes changes the ledger.
C6_UnpublishedUpdate ==
    /\ [](\A r \in Reqs : req[r].endpoint = "credential-status/update" =>
            /\ req[r].publish = (req[r].asked = "true")
            /\ req[r].returnUpdatedStatusList = ~req[r].publish)
    /\ [](\A r \in Reqs : Unpublished(r) =>
            /\ req[r].pc # "publishing"
            /\ req[r].version = 0
            /\ req[r].pc = "done" =>
                  req[r].returned = MutateBits(Fetched(r).bits, req[r].action, req[r].indices))
    /\ [][\A r \in Reqs : (Unpublished(r) /\ req'[r] # req[r]) => ledger' = ledger]_vars

\* C6 witness: an update with publish=false returned a list that differs
\* from the current on-ledger list, which is still the fetched one.
C6_Witness ==
    \E r \in Reqs :
        /\ Unpublished(r) /\ req[r].pc = "done"
        /\ req[r].returned # Fetched(r).bits
        /\ Version(req[r].key) = req[r].base

\* C7: a revoke request with query publish=false reaches the agent with
\* publish=false, for a single credential and for an array of credentials,
\* and publishes no revision.
C7_RevokeHonoursPublishFalse ==
    \A r \in Reqs :
        (req[r].endpoint = "credential/revoke" /\ req[r].asked = "false")
            => (~req[r].publish /\ req[r].pc # "publishing" /\ req[r].version = 0)

\* C8: for suspend and reinstate the query parameter publish decides what
\* reaches the agent, whatever the body contains.
C8_QueryPublishDecides ==
    \A r \in Reqs :
        req[r].endpoint \in {"credential/suspend", "credential/reinstate"}
            => /\ req[r].asked = "false" => ~req[r].publish
               /\ req[r].asked = "true" => req[r].publish

\* The version of list k changes in this step.
VersionChanges(k) == Len(ledger'[k]) # Len(ledger[k])

\* The current bits of list k change in this step.
BitsChange(k) == ledger'[k][Len(ledger'[k])].bits # Current(k).bits

\* C9 as stated: the version of a list changes in a step if and only if the
\* step changed its bits and published the change.
C9_VersionIffBitsChanged ==
    [][\A k \in Keys : Exists(k) =>
          (VersionChanges(k) <=>
              (BitsChange(k) /\ \E r \in Reqs : req[r].key = k /\ Acked(r)))]_vars

\* C9 amended: the version of a list changes in a step if and only if the
\* step is an acknowledged publish; a change of the current bits always comes
\* with a new version; the new version is the one reported to the request,
\* and a status-list update publishes only when called with publish=true.
C9_VersionIffPublished ==
    [][\A k \in Keys : Exists(k) =>
          /\ VersionChanges(k) <=> \E r \in Reqs : req[r].key = k /\ Acked(r)
          /\ BitsChange(k) => VersionChanges(k)
          /\ \A r \in Reqs : (req[r].key = k /\ Acked(r)) =>
                /\ Len(ledger'[k]) = Len(ledger[k]) + 1
                /\ req'[r].version = Len(ledger'[k])
                /\ ledger'[k][Len(ledger'[k])].bits = req[r].bits
                /\ req[r].endpoint = "credential-status/update" => req[r].asked = "true"]_vars

\* C9 witness: an update was published as a new version although it changed
\* no bit (the index was already set).
C9_Witness ==
    \E r \in Reqs :
        /\ req[r].endpoint = "credential-status/update" /\ req[r].pc = "done"
        /\ req[r].action = "revoke"
        /\ req[r].version = req[r].base + 1
        /\ ledger[req[r].key][req[r].version].bits = Fetched(r).bits
        /\ \E i \in req[r].indices : getBit(Fetched(r).bits, i) = 1

PublishErrors == TransientErrors \cup {"PublishConflict", "NotFound"}

\* The request took a step that ended its publish in failure.
PublishFailed(r) == req[r].pc = "publishing" /\ req'[r].pc = "failed"

\* C10: a publish that times out, fails with a network error or is rejected
\* changes neither the current version nor the current bits; a failed
\* request reports no version; the revisions already on the ledger stay as
\* they are, and a new one appears only with a publish acknowledgment.
C10_VersionAdvancesOnAckOnly ==
    /\ [][\A r \in Reqs : PublishFailed(r) =>
            /\ req'[r].error \in PublishErrors
            /\ ledger' = ledger]_vars
    /\ [][\A k \in Keys : Exists(k) =>
            /\ Len(ledger'[k]) >= Len(ledger[k])
            /\ \A v \in 1..Len(ledger[k]) : ledger'[k][v] = ledger[k][v]
            /\ ~(\E r \in Reqs : req[r].key = k /\ Acked(r)) => ledger'[k] = ledger[k]]_vars
    /\ [](\A r \in Reqs : req[r].pc = "failed" => req[r].version = 0)

\* C10 witness: the publish of an update that had changed a bit failed with a
\* transient ledger error and the current revision is still the fetched one.
C10_Witness ==
    \E r \in Reqs :
        /\ IsUpdate(r) /\ req[r].pc = "failed" /\ req[r].base # 0
        /\ req[r].error \in TransientErrors
        /\ MutateBits(Fetched(r).bits, req[r].action, req[r].indices) # Fetched(r).bits
        /\ Version(req[r].key) = req[r].base

\* Scheduling: the ledger owes no answer, but a fetch or publish left without
\* one is cut off by its timeout; the local steps of a handler (mutate,
\* respond) always run.
Fairness ==
    \A r \in Reqs :
        /\ WF_vars(FetchFail(r, "LedgerTimeout"))
        /\ WF_vars(PublishFail(r, "LedgerTimeout"))
        /\ WF_vars(Mutate(r))
        /\ WF_vars(Respond(r))

\* The update path alone, for the liveness check: revoke requests on two
\* request slots.
NextLive ==
    \/ \E k \in Keys, p \in PurposeInputs, n \in Lengths : CreateStatusList(k, p, n)
    \/ \E r \in Reqs, k \in Keys, s \in {{0}, {0, MaxLen}}, p \in BOOLEAN :
          StartUpdate(r, k, "revoke", s, p)
    \/ \E r \in Reqs : FetchOk(r)
    \/ \E r \in Reqs : FetchNotFound(r)
    \/ \E r \in Reqs, e \in TransientErrors : FetchFail(r, e)
    \/ \E r \in Reqs : Mutate(r)
    \/ \E r \in Reqs : PublishAck(r)
    \/ \E r \in Reqs : PublishConflict(r)
    \/ \E r \in Reqs, e \in TransientErrors : PublishFail(r, e)
    \/ \E r \in Reqs : Respond(r)

SpecLive == Init /\ [][NextLive]_vars /\ Fairness

UpdateStep(r) == IsUpdate(r) \/ req'[r].endpoint \in UpdateEndpoints

Move(r) == <<req[r].pc, req'[r].pc>>

\* C12 as stated: an update moves idle, fetching, mutating, publishing and
\* back to idle (through its result), and fails only from fetching or
\* publishing.
C12_CoordinatorMoves ==
    [][\A r \in Reqs : (UpdateStep(r) /\ req'[r].pc # req[r].pc) =>
          Move(r) \in {<<"idle", "fetching">>, <<"fetching", "mutating">>,
                       <<"mutating", "publishing">>, <<"publishing", "done">>,
                       <<"done", "idle">>,
                       <<"fetching", "failed">>, <<"publishing", "failed">>,
                       <<"failed", "idle">>}]_vars

\* C12 amended: as above, and an update also leaves mutating for failed (its
\* validation errors, IndexOutOfRange and InvalidAction) and, when it does
\* not publish, directly for its result; it enters publishing only from
\* mutating and only when publish was asked of the agent.
C12_CoordinatorMovesAmended ==
    [][\A r \in Reqs : (UpdateStep(r) /\ req'[r].pc # req[r].pc) =>
          /\ Move(r) \in {<<"idle", "fetching">>, <<"fetching", "mutating">>,
                          <<"mutating", "publishing">>, <<"publishing", "done">>,
                          <<"done", "idle">>,
                          <<"fetching", "failed">>, <<"publishing", "failed">>,
                          <<"failed", "idle">>,
                          <<"mutating", "failed">>, <<"mutating", "done">>}
          /\ Move(r) = <<"mutating", "failed">> =>
                req'[r].error \in {"IndexOutOfRange", "InvalidAction"}
          /\ Move(r) = <<"mutating", "done">> => ~req[r].publish
          /\ Move(r) = <<"mutating", "publishing">> => req[r].publish
          /\ Move(r) = <<"fetching", "mutating">> => req'[r].base = Version(req[r].key)]_vars

\* C12 witness: one update failed in its mutate step and another ended there
\* without a publish.
C12_Witness ==
    \E r1, r2 \in Reqs :
        /\ IsUpdate(r1) /\ req[r1].pc = "failed" /\ req[r1].base # 0
        /\ req[r1].error \in {"IndexOutOfRange", "InvalidAction"}
        /\ IsUpdate(r2) /\ req[r2].pc = "done" /\ ~req[r2].publish

\* C14: one call fetches at most once and submits at most one publish; a
\* call that failed or returned does nothing more until its response is
\* sent, also after a transient failure or a publish conflict.
C14_NoRetry ==
    [][\A r \in Reqs :
          /\ Finished(r) => req'[r] \in {req[r], IdleReq}
          /\ (req'[r].pc = "fetching" /\ req[r].pc # "fetching") => req[r].pc = "idle"
          /\ (req'[r].pc = "publishing" /\ req[r].pc # "publishing") =>
                req[r].pc \in {"idle", "mutating"}
          /\ req[r].base # 0 => (req'[r].base = req[r].base \/ req'[r] = IdleReq)
          /\ Acked(r) => req[r].version = 0
          /\ (req[r].pc \in {"fetching", "publishing"} /\ req'[r].pc = "failed") =>
                ledger' = ledger]_vars

\* C14 witness: a publish failed with a network error and the call is over,
\* the list still at the fetched version.
C14_Witness ==
    \E r \in Reqs :
        /\ IsUpdate(r) /\ req[r].pc = "failed" /\ req[r].error = "NetworkError"
        /\ req[r].base # 0 /\ req[r].base = Version(req[r].key)

Free(bits, res) == {i \in 0..(Len(bits) - 1) : getBit(bits, i) = 0 /\ i \notin res}

NoIndex == -1

RECURSIVE scan(_, _, _)
scan(bits, res, i) ==
    IF i >= Len(bits) THEN NoIndex
    ELSE IF getBit(bits, i) = 0 /\ i \notin res THEN i
    ELSE scan(bits, res, i + 1)

\* Variant: pending reservations are not looked at.
nextIndex_IgnoresReservations(bits, res) == scan(bits, {}, 0)

\* Variant: the highest free index is returned.
nextIndex_FromTop(bits, res) ==
    IF Free(bits, res) = {} THEN NoIndex
    ELSE CHOOSE i \in Free(bits, res) : \A j \in Free(bits, res) : j <= i

\* nextIndex(list): the lowest unset index not reserved, NoIndex if none.
nextIndex(bits, res) == scan(bits, res, 0)

IsAllocation(r) == req[r].endpoint = "nextIndex"

\* nextIndex is called: the list is fetched from the ledger.
StartNextIndex(r, k) ==
    /\ req[r].pc = "idle"
    /\ ops < MaxOps
    /\ req' = [req EXCEPT ![r] =
           [IdleReq EXCEPT !.pc = "fetching", !.endpoint = "nextIndex", !.key = k]]
    /\ ops' = ops + 1
    /\ UNCHANGED <<ledger, other>>

\* The fetch returns; the index is picked and reserved without suspending,
\* or the call fails with Exhausted.
Allocate(r) ==
    /\ req[r].pc = "fetching"
    /\ IsAllocation(r)
    /\ Exists(req[r].key)
    /\ LET k == req[r].key
           i == nextIndex(Current(k).bits, reserved[k])
       IN  IF i = NoIndex
           THEN /\ req' = [req EXCEPT ![r].pc = "failed", ![r].error = "Exhausted"]
                /\ reserved' = reserved
           ELSE /\ req' = [req EXCEPT ![r].pc = "done", ![r].index = i,
                                      ![r].base = Version(k)]
                /\ reserved' = [reserved EXCEPT ![k] = @ \cup {i}]
    /\ UNCHANGED <<ledger, ops, codec, http, pure>>

\* release(index) by the caller that was given the index.
Release(k, i) ==
    /\ i \in reserved[k]
    /\ \A r \in Reqs : ~(IsAllocation(r) /\ req[r].key = k /\ req[r].index = i)
    /\ reserved' = [reserved EXCEPT ![k] = @ \ {i}]
    /\ UNCHANGED <<ledger, req, ops, codec, http, pure>>

NextAlloc ==
    \/ \E k \in Keys, p \in PurposeInputs, n \in Lengths : CreateStatusList(k, p, n)
    \/ \E r \in Reqs, k \in Keys : StartNextIndex(r, k)
    \/ \E r \in Reqs : Allocate(r)
    \/ \E k \in Keys, i \in Indices : Release(k, i)
    \/ \E r \in Reqs, k \in Keys, s \in IndexSets : StartUpdate(r, k, "revoke", s, TRUE)
    \/ \E r \in Reqs : FetchOk(r)
    \/ \E r \in Reqs : FetchNotFound(r)
    \/ \E r \in Reqs, e \in TransientErrors : FetchFail(r, e)
    \/ \E r \in Reqs : Mutate(r)
    \/ \E r \in Reqs : PublishAck(r)
    \/ \E r \in Reqs : PublishConflict(r)
    \/ \E r \in Reqs : Respond(r)

SpecAlloc == Init /\ [][NextAlloc]_vars

\* A nextIndex call that has returned an index, not yet handed back.
Returned(r) == IsAllocation(r) /\ req[r].pc = "done"

\* C16: a nextIndex call never returns an index that is reserved or set
\* when it returns, two calls on the same list that have both returned hold
\* different indices, and a call fails with Exhausted only when no index
\* of the list is free.
C16_DistinctIndices ==
    /\ [][\A r \in Reqs : (IsAllocation(r) /\ req[r].pc = "fetching" /\ req'[r] # req[r]) =>
            LET k == req[r].key
            IN  /\ req'[r].pc = "done" =>
                      /\ req'[r].index \notin reserved[k]
                      /\ req'[r].index \in reserved'[k]
                      /\ InRange(Current(k).bits, req'[r].index)
                      /\ getBit(Current(k).bits, req'[r].index) = 0
                      /\ \A q \in Reqs \ {r} :
                            (Returned(q) /\ req[q].key = k) => req[q].index # req'[r].index
                /\ req'[r].error = "Exhausted" =>
                      Cardinality(Free(Current(k).bits, reserved[k])) = 0]_vars
    /\ [](\A r, q \in Reqs :
            (r # q /\ Returned(r) /\ Returned(q) /\ req[r].key = req[q].key) =>
                req[r].index # req[q].index)

\* C16 witness: two concurrent nextIndex calls on one list have returned.
C16_Witness ==
    \E r, q \in Reqs :
        /\ r # q /\ Returned(r) /\ Returned(q) /\ req[r].key = req[q].key
        /\ req[r].index # req[q].index
        /\ {req[r].index, req[q].index} \subseteq reserved[req[r].key]

\* C17: nextIndex returns the lowest index that is unset and not reserved,
\* and fails with Exhausted exactly when every index of the list is set or
\* reserved (a missing list or a transient ledger error ends the fetch
\* otherwise).
C17_LowestFreeIndex ==
    [][\A r \in Reqs : (IsAllocation(r) /\ req[r].pc = "fetching" /\ req'[r] # req[r]
                        /\ Exists(req[r].key)
                        /\ req'[r].error \notin TransientErrors) =>
          LET free == Free(Current(req[r].key).bits, reserved[req[r].key])
          IN  IF free = {}
              THEN req'[r].pc = "failed" /\ req'[r].error = "Exhausted"
              ELSE /\ req'[r].pc = "done"
                   /\ req'[r].index \in free
                   /\ \A j \in free : req'[r].index <= j]_vars

\* C17 witness: one call was given the only index of a list and a second
\* call on the same list failed with Exhausted.
C17_Witness ==
    \E r, q \in Reqs :
        /\ Returned(q) /\ req[q].index = 0
        /\ IsAllocation(r) /\ req[r].pc = "failed" /\ req[r].error = "Exhausted"
        /\ req[r].key = req[q].key
        /\ Free(Current(req[r].key).bits, reserved[req[r].key]) = {}

\* --------------------------------------------------------- status check
\* Variant: the agent is told not to fetch the list.
checkStatusList2021_NoFetch(did, index) == [issuerDid |-> did, index |-> index, fetchList |-> FALSE]

\* Veramo.checkStatusList2021: the call handed to the agent.
checkStatusList2021(did, index) == [issuerDid |-> did, index |-> index, fetchList |-> TRUE]

IsCheck(r) == req[r].endpoint = "credential-status/check"

\* checkStatusList2021 up to the agent's await: the list is fetched afresh.
StartCheck(r, k, index) ==
    /\ req[r].pc = "idle"
    /\ ops < MaxOps
    /\ LET call == checkStatusList2021(k, index)
       IN req' = [req EXCEPT ![r] =
              [IdleReq EXCEPT !.pc = IF call.fetchList THEN "fetching" ELSE "done",
                              !.endpoint = "credential-status/check",
                              !.key = call.issuerDid, !.index = call.index,
                              !.startedAt = Version(k)]]
    /\ ops' = ops + 1
    /\ UNCHANGED <<ledger, other>>

\* The fetch returns: the bit at the index is the answer, or IndexOutOfRange.
CheckOk(r) ==
    /\ req[r].pc = "fetching"
    /\ IsCheck(r)
    /\ Exists(req[r].key)
    /\ LET cur == Current(req[r].key)
       IN req' = [req EXCEPT ![r] =
              IF InRange(cur.bits, req[r].index)
              THEN [req[r] EXCEPT !.pc = "done", !.base = Version(req[r].key),
                                  !.type = cur.type,
                                  !.value = (getBit(cur.bits, req[r].index) = 1)]
              ELSE [req[r] EXCEPT !.pc = "failed", !.error = "IndexOutOfRange"]]
    /\ UNCHANGED <<ledger, ops, other>>

SetActions == {"revoke", "suspend"}

\* Index sets of the checked updates: one index, and two indices of one list.
CheckIndexSets == {{0}, {1}, {0, 1}}

NextCheck ==
    \/ \E k \in Keys, p \in PurposeInputs, n \in Lengths : CreateStatusList(k, p, n)
    \/ \E r \in Reqs, k \in Keys, i \in Indices : StartCheck(r, k, i)
    \/ \E r \in Reqs : CheckOk(r)
    \/ \E r \in Reqs, k \in Keys, a \in SetActions, s \in CheckIndexSets, p \in BOOLEAN :
          StartUpdate(r, k, a, s, p)
    \/ \E r \in Reqs : FetchOk(r)
    \/ \E r \in Reqs : FetchNotFound(r)
    \/ \E r \in Reqs, e \in TransientErrors : FetchFail(r, e)
    \/ \E r \in Reqs : Mutate(r)
    \/ \E r \in Reqs : PublishAck(r)
    \/ \E r \in Reqs : PublishConflict(r)
    \/ \E r \in Reqs : Respond(r)

SpecCheck == Init /\ [][NextCheck]_vars

\* C20: a created list starts as one revision of the asked length with all
\* bits zero; while no update has been published (the list is at its first
\* revision) every check of an index in [0, length) succeeds with value
\* false, whatever unpublished updates have computed.
C20_FreshListAllZero ==
    /\ [][\A k \in Keys : (~Exists(k) /\ Exists(k)') =>
            /\ Len(ledger'[k]) = 1
            /\ Len(ledger'[k][1].bits) \in Lengths
            /\ \A i \in 0..(Len(ledger'[k][1].bits) - 1) : getBit(ledger'[k][1].bits, i) = 0]_vars
    /\ [][\A r \in Reqs : (IsCheck(r) /\ req[r].pc = "fetching" /\ req'[r] # req[r]
                           /\ Version(req[r].key) = 1
                           /\ req'[r].error \notin TransientErrors) =>
            IF InRange(ledger[req[r].key][1].bits, req[r].index)
            THEN req'[r].pc = "done" /\ req'[r].value = FALSE
            ELSE req'[r].pc = "failed" /\ req'[r].error = "IndexOutOfRange"]_vars
    /\ [](\A r \in Reqs : (IsCheck(r) /\ req[r].pc = "done" /\ req[r].value) =>
            Version(req[r].key) > 1)

\* C20 witness: a check at the first revision answered false for the last
\* index of the list while an unpublished update that set this index has
\* returned its updated list.
C20_Witness ==
    \E r, q \in Reqs :
        /\ IsCheck(r) /\ req[r].pc = "done" /\ ~req[r].value /\ req[r].base = 1
        /\ Version(req[r].key) = 1
        /\ req[r].index = Len(Current(req[r].key).bits) - 1
        /\ IsUpdate(q) /\ req[q].pc = "done" /\ req[q].key = req[r].key
        /\ ~req[q].publish
        /\ InRange(req[q].returned, req[r].index)
        /\ getBit(req[q].returned, req[r].index) = 1

\* ------------------------------------------------------------ two keys
NextKeys ==
    \/ \E k \in AllKeys, n \in Lengths : CreateStatusList(k, "revocation", n)
    \/ \E r \in Reqs, k \in AllKeys, p \in BOOLEAN : StartUpdate(r, k, "revoke", {0}, p)
    \/ \E r \in Reqs, k \in AllKeys : StartCheck(r, k, 0)
    \/ \E r \in Reqs, k \in AllKeys : StartNextIndex(r, k)
    \/ \E r \in Reqs : FetchOk(r)
    \/ \E r \in Reqs : CheckOk(r)
    \/ \E r \in Reqs : Allocate(r)
    \/ \E r \in Reqs : FetchNotFound(r)
    \/ \E r \in Reqs : Mutate(r)
    \/ \E r \in Reqs : PublishAck(r)
    \/ \E r \in Reqs : PublishConflict(r)
    \/ \E r \in Reqs : Respond(r)

SpecKeys == Init /\ [][NextKeys]_vars

\* An update waiting for the ledger.
Suspended(r) == IsUpdate(r) /\ req[r].pc \in {"fetching", "publishing"}

\* The step that request q is waiting for can be taken.
CanStep(q) ==
    /\ (req[q].pc = "fetching" /\ ~Exists(req[q].key)) => ENABLED FetchNotFound(q)
    /\ (req[q].pc = "fetching" /\ Exists(req[q].key) /\ IsUpdate(q)) => ENABLED FetchOk(q)
    /\ (req[q].pc = "fetching" /\ Exists(req[q].key) /\ IsCheck(q)) => ENABLED CheckOk(q)
    /\ (req[q].pc = "fetching" /\ Exists(req[q].key) /\ IsAllocation(q)) => ENABLED Allocate(q)
    /\ req[q].pc = "mutating" => ENABLED Mutate(q)
    /\ (req[q].pc = "publishing" /\ req[q].base = Version(req[q].key)) => ENABLED PublishAck(q)
    /\ Finished(q) => ENABLED Respond(q)

\* C15: while an update on one key waits for a ledger fetch or publish, an
\* update, a check and an allocation on another key can start, every step
\* of a request on another key can be taken, and such a step neither
\* reads nor changes the waiting request and its list.
C15_KeysDoNotBlock ==
    /\ [](\A r \in Reqs : Suspended(r) =>
            \A q \in Reqs \ {r} :
                /\ (req[q].pc = "idle" /\ ops < MaxOps) =>
                      \A k \in AllKeys \ {req[r].key} :
                          /\ ENABLED StartUpdate(q, k, "revoke", {0}, TRUE)
                          /\ ENABLED StartCheck(q, k, 0)
                          /\ ENABLED StartNextIndex(q, k)
                /\ req[q].key # req[r].key => CanStep(q))
    /\ [][\A r \in Reqs : Suspended(r) =>
            \A q \in Reqs \ {r} :
                (req'[q] # req[q] /\ req'[q].key # req[r].key) =>
                    /\ req'[r] = req[r]
                    /\ ledger'[req[r].key] = ledger[req[r].key]
                    /\ reserved'[req[r].key] = reserved[req[r].key]]_vars

\* C15 witness: an update on one key is waiting for its publish while an
\* update on the other key, fetched from the revision that is still the
\* latest of its list, has been acknowledged.
C15_Witness ==
    \E r, q \in Reqs :
        /\ Suspended(r) /\ req[r].pc = "publishing"
        /\ req[q].key # req[r].key
        /\ IsUpdate(q) /\ req[q].pc = "done" /\ req[q].publish
        /\ req[q].version = 2 /\ Version(req[q].key) = 2

\* --------------------------------------------------------- BitSet codec
BitsPerByte == 8
MaxBytes == MaxLen + 1

Encodings == {"base64url", "base64", "hex"}

\* Bytes the inputs are built from: no bit, every bit, the least and the
\* most significant bit alone, and a byte that is not its own mirror.
SampleBytes == {0, 1, 128, 251, 255}

RECURSIVE bitsOfByte(_, _)
bitsOfByte(b, i) ==
    IF i = BitsPerByte THEN <<>> ELSE <<(b \div (2 ^ i)) % 2>> \o bitsOfByte(b, i + 1)

RECURSIVE bitsOfBytes(_)
bitsOfBytes(bytes) ==
    IF bytes = <<>> THEN <<>> ELSE bitsOfByte(Head(bytes), 0) \o bitsOfBytes(Tail(bytes))

ByteSeqs == UNION {[1..n -> SampleBytes] : n \in 1..MaxBytes}

\* The bit sequences handed to encode: the short lists of the update model
\* and lists of whole bytes.
CodecInputs == BitStrings \cup {bitsOfBytes(bs) : bs \in ByteSeqs}

ExpectedLengths == 0..(BitsPerByte * (MaxBytes + 1))

RECURSIVE byteValue(_, _, _)
byteValue(bits, j, i) ==
    IF i = BitsPerByte THEN 0
    ELSE (IF BitsPerByte * j + i < Len(bits) THEN bits[BitsPerByte * j + i + 1] * (2 ^ i) ELSE 0)
         + byteValue(bits, j, i + 1)

RECURSIVE byteValueMsb(_, _, _)
byteValueMsb(bits, j, i) ==
    IF i = BitsPerByte THEN 0
    ELSE (IF BitsPerByte * j + i < Len(bits)
          THEN bits[BitsPerByte * j + i + 1] * (2 ^ (BitsPerByte - 1 - i)) ELSE 0)
         + byteValueMsb(bits, j, i + 1)

\* Variant: index 0 is packed as the most significant bit of the first byte.
pack_MsbFirst(bits) ==
    [j \in 1..((Len(bits) + BitsPerByte - 1) \div BitsPerByte) |-> byteValueMsb(bits, j - 1, 0)]

\* pack: 1 bit per position, index 0 = least significant bit of first byte.
pack(bits) ==
    [j \in 1..((Len(bits) + BitsPerByte - 1) \div BitsPerByte) |-> byteValue(bits, j - 1, 0)]

unpack(bytes) ==
    [n \in 1..(BitsPerByte * Len(bytes)) |->
        (bytes[((n - 1) \div BitsPerByte) + 1] \div (2 ^ ((n - 1) % BitsPerByte))) % 2]

\* The compressor: runs of equal bytes as (count, byte) pairs.
runLength(bytes) ==
    CHOOSE n \in 1..Len(bytes) :
        /\ \A i \in 1..n : bytes[i] = bytes[1]
        /\ n = Len(bytes) \/ bytes[n + 1] # bytes[1]

RECURSIVE compress(_)
compress(bytes) ==
    IF bytes = <<>> THEN <<>>
    ELSE LET n == runLength(bytes)
         IN <<n, bytes[1]>> \o compress(SubSeq(bytes, n + 1, Len(bytes)))

WellFormed(stream) ==
    /\ Len(stream) % 2 = 0
    /\ \A i \in 1..Len(stream) : i % 2 = 1 => stream[i] >= 1

RECURSIVE decompress(_)
decompress(stream) ==
    IF Len(stream) < 2 THEN <<>>
    ELSE [i \in 1..stream[1] |-> stream[2]] \o decompress(SubSeq(stream, 3, Len(stream)))

\* Text encodings: a text is a sequence of characters.
HexAlphabet ==
    <<"0", "1", "2", "3", "4", "5", "6", "7", "8", "9", "a", "b", "c", "d", "e", "f">>

Base64Letters ==
    <<"A", "B", "C", "D", "E", "F", "G", "H", "I", "J", "K", "L", "M", "N", "O", "P", "Q", "R", "S", "T", "U", "V", "W", "X", "Y", "Z">>
    \o <<"a", "b", "c", "d", "e", "f", "g", "h", "i", "j", "k", "l", "m", "n", "o", "p", "q", "r", "s", "t", "u", "v", "w", "x", "y", "z">>
    \o <<"0", "1", "2", "3", "4", "5", "6", "7", "8", "9">>

Base64Alphabet == Base64Letters \o <<"+", "/">>
Base64UrlAlphabet == Base64Letters \o <<"-", "_">>

IndexOf(alphabet, c) == (CHOOSE i \in 1..Len(alphabet) : alphabet[i] = c) - 1

hexEncode(bytes) ==
    [i \in 1..(2 * Len(bytes)) |->
        LET b == bytes[(i + 1) \div 2]
        IN HexAlphabet[(IF i % 2 = 1 THEN b \div 16 ELSE b % 16) + 1]]

hexDecode(text) ==
    [j \in 1..(Len(text) \div 2) |->
        16 * IndexOf(HexAlphabet, text[2 * j - 1]) + IndexOf(HexAlphabet, text[2 * j])]

RECURSIVE sextets(_)
sextets(bytes) ==
    IF bytes = <<>> THEN <<>>
    ELSE IF Len(bytes) = 1
    THEN <<bytes[1] \div 4, (bytes[1] % 4) * 16>>
    ELSE IF Len(bytes) = 2
    THEN <<bytes[1] \div 4, (bytes[1] % 4) * 16 + bytes[2] \div 16, (bytes[2] % 16) * 4>>
    ELSE <<bytes[1] \div 4, (bytes[1] % 4) * 16 + bytes[2] \div 16,
           (bytes[2] % 16) * 4 + bytes[3] \div 64, bytes[3] % 64>>
         \o sextets(SubSeq(bytes, 4, Len(bytes)))

RECURSIVE bytesOfSextets(_)
bytesOfSextets(sx) ==
    IF Len(sx) < 2 THEN <<>>
    ELSE IF Len(sx) = 2
    THEN <<sx[1] * 4 + sx[2] \div 16>>
    ELSE IF Len(sx) = 3
    THEN <<sx[1] * 4 + sx[2] \div 16, (sx[2] % 16) * 16 + sx[3] \div 4>>
    ELSE <<sx[1] * 4 + sx[2] \div 16, (sx[2] % 16) * 16 + sx[3] \div 4,
           (sx[3] % 4) * 64 + sx[4]>>
         \o bytesOfSextets(SubSeq(sx, 5, Len(sx)))

base64Encode(bytes, alphabet, pad) ==
    LET sx == sextets(bytes)
        chars == [i \in 1..Len(sx) |-> alphabet[sx[i] + 1]]
    IN IF pad THEN chars \o [i \in 1..((4 - (Len(sx) % 4)) % 4) |-> "="] ELSE chars

IsNotPad(c) == c # "="

base64Decode(text, alphabet) ==
    LET body == SelectSeq(text, IsNotPad)
    IN bytesOfSextets([i \in 1..Len(body) |-> IndexOf(alphabet, body[i])])

textEncode(bytes, encoding) ==
    CASE encoding = "hex" -> hexEncode(bytes)
      [] encoding = "base64" -> base64Encode(bytes, Base64Alphabet, TRUE)
      [] encoding = "base64url" -> base64Encode(bytes, Base64UrlAlphabet, FALSE)

textDecode(text, encoding) ==
    CASE encoding = "hex" -> hexDecode(text)
      [] encoding = "base64" -> base64Decode(text, Base64Alphabet)
      [] encoding = "base64url" -> base64Decode(text, Base64UrlAlphabet)

\* encode(bits, encoding): pack, compress, text-encode.
encode(bits, encoding) == textEncode(compress(pack(bits)), encoding)

Decoded(bits) == [error |-> "", bits |-> bits]
DecodeError == [error |-> "DecodeError", bits |-> <<>>]

\* Variant: the decompressed length is not compared with length.
decode_NoLengthCheck(text, encoding, length) ==
    LET stream == textDecode(text, encoding)
    IN IF ~WellFormed(stream) THEN DecodeError ELSE Decoded(unpack(decompress(stream)))

\* decode(string, encoding, length): the inverse; DecodeError if the
\* decompressed length does not match length exactly.
decode(text, encoding, length) ==
    LET stream == textDecode(text, encoding)
    IN IF ~WellFormed(stream) THEN DecodeError
       ELSE LET bytes == decompress(stream)
            IN IF BitsPerByte * Len(bytes) # length THEN DecodeError
               ELSE Decoded(unpack(bytes))

CodecInit ==
    /\ ledger = [k \in AllKeys |-> <<>>]
    /\ req = [r \in Reqs |-> IdleReq]
    /\ ops = 0
    /\ reserved = [k \in AllKeys |-> {}]
    /\ http = IdleHttp
    /\ pure = NoPure
    /\ codec \in {[pc |-> "input", bits |-> b, encoding |-> e, length |-> n,
                   text |-> <<>>, result |-> Decoded(<<>>)] :
                     b \in CodecInputs, e \in Encodings, n \in ExpectedLengths}

Encode ==
    /\ codec.pc = "input"
    /\ codec' = [codec EXCEPT !.pc = "encoded", !.text = encode(codec.bits, codec.encoding)]
    /\ UNCHANGED <<ledger, req, ops, reserved, http, pure>>

Decode ==
    /\ codec.pc = "encoded"
    /\ codec' = [codec EXCEPT !.pc = "decoded",
                              !.result = decode(codec.text, codec.encoding, codec.length)]
    /\ UNCHANGED <<ledger, req, ops, reserved, http, pure>>

NextCodec == Encode \/ Decode

SpecCodec == CodecInit /\ [][NextCodec]_vars

\* A bit sequence that fills whole bytes: the lengths that decode's exact
\* comparison of the decompressed length can accept.
Valid(bits) == Len(bits) > 0 /\ Len(bits) % BitsPerByte = 0

DecompressedBits == BitsPerByte * ((Len(codec.bits) + BitsPerByte - 1) \div BitsPerByte)

\* C19: decode fails with DecodeError whenever the decompressed bit length
\* differs from the length argument, and what it returns otherwise has
\* exactly that length.
C19_LengthMismatch ==
    codec.pc = "decoded" =>
        /\ DecompressedBits # codec.length => codec.result = DecodeError
        /\ codec.result.error = "" => Len(codec.result.bits) = codec.length

\* C19 witness: a list of whole bytes decoded with a length argument that
\* is one bit more than what was encoded.
C19_Witness ==
    /\ codec.pc = "decoded" /\ Valid(codec.bits)
    /\ codec.length = Len(codec.bits) + 1
    /\ codec.result = DecodeError

\* A check that was answered from the revision an update has published.
ChecksPublished(r, q) ==
    /\ IsCheck(r) /\ req[r].pc = "done"
    /\ IsUpdate(q) /\ req[q].pc = "done" /\ req[q].publish
    /\ req[q].action \in SetActions
    /\ req[q].key = req[r].key
    /\ req[q].version = req[r].base

\* C21: a check answered from the revision that a revoke or suspend of the
\* index set S published returns true with the purpose of the list for an
\* index in S, and for an index outside S the value of the revision the
\* update was computed from.
C21_PublishedUpdateIsChecked ==
    \A r, q \in Reqs : ChecksPublished(r, q) =>
        LET k == req[r].key
            before == ledger[k][req[q].version - 1]
        IN  /\ req[r].type = before.type
            /\ req[r].index \in req[q].indices => req[r].value
            /\ req[r].index \notin req[q].indices =>
                  req[r].value = (getBit(before.bits, req[r].index) = 1)

\* C21 witness: after a published suspend of index 0 of a list of two or
\* more bits, the check of index 0 returned true with purpose suspension
\* and index 1 is still unset.
C21_Witness ==
    \E r, q \in Reqs :
        /\ ChecksPublished(r, q)
        /\ req[q].action = "suspend" /\ req[q].indices = {0}
        /\ req[r].index = 0 /\ req[r].value
        /\ PurposeOfType(req[r].type) = "suspension"
        /\ InRange(Current(req[r].key).bits, 1)
        /\ getBit(Current(req[r].key).bits, 1) = 0

\* C22: a check is answered from a revision that is at least the latest
\* one acknowledged when the check started, with the bit of that revision
\* at the index, and at the moment of the answer that revision is the
\* current one.
C22_CheckFetchesAfresh ==
    /\ [](\A r \in Reqs : (IsCheck(r) /\ req[r].pc = "done") =>
            /\ req[r].base >= req[r].startedAt
            /\ req[r].base \in 1..Version(req[r].key)
            /\ req[r].value = (getBit(ledger[req[r].key][req[r].base].bits, req[r].index) = 1))
    /\ [][\A r \in Reqs : (IsCheck(r) /\ req[r].pc # "done" /\ req'[r].pc = "done") =>
            req'[r].base = Version(req[r].key)]_vars

\* C22 witness: a check that started after the second revision was
\* acknowledged returned the set bit of that revision.
C22_Witness ==
    \E r \in Reqs :
        /\ IsCheck(r) /\ req[r].pc = "done"
        /\ req[r].startedAt = 2 /\ req[r].base = 2 /\ req[r].value
        /\ getBit(ledger[req[r].key][1].bits, req[r].index) = 0

\* C23: every revision of a status list has the number of bits of its
\* first revision.
C23_LengthNeverChanges ==
    \A k \in AllKeys : \A i \in 1..Version(k) :
        Len(ledger[k][i].bits) = Len(ledger[k][1].bits)

\* A request whose publish was acknowledged as revision req[r].version.
Published(r) == req[r].pc = "done" /\ req[r].publish /\ req[r].version # 0

\* C24: a step adds at most one revision to a key and leaves every earlier
\* revision as it was; two acknowledged publishes on one key were given
\* different versions, each a revision of the ledger, so that the latest
\* revision is the one current version.
C24_OneCurrentVersion ==
    /\ [][\A k \in AllKeys :
            /\ Len(ledger'[k]) \in {Len(ledger[k]), Len(ledger[k]) + 1}
            /\ \A i \in 1..Len(ledger[k]) : ledger'[k][i] = ledger[k][i]]_vars
    /\ [](\A r \in Reqs : Published(r) => req[r].version \in 2..Version(req[r].key))
    /\ [](\A r, q \in Reqs :
            (r # q /\ Published(r) /\ Published(q) /\ req[r].key = req[q].key) =>
                req[r].version # req[q].version)

\* C24 witness: of two concurrent publishes on one key one was acknowledged
\* as version 2 and the other failed with PublishConflict.
C24_Witness ==
    \E r, q \in Reqs :
        /\ Published(r) /\ req[r].version = 2
        /\ req[q].pc = "failed" /\ req[q].error = "PublishConflict"
        /\ req[q].key = req[r].key
        /\ Version(req[r].key) = 2

\* ------------------------------------------- credential controller (HTTP)
Handlers == {"issue", "verify", "revoke", "suspend", "reinstate", "verifyPresentation"}
VerifyHandlers == {"verify", "verifyPresentation"}

\* Messages of issueValidator, credentialValidator and presentationValidator.
ValidatorMessages(handler) ==
    CASE handler = "issue" -> {"DID is required", "attributes are required"}
      [] handler = "verifyPresentation" ->
           {"W3c verifiable presentation was not provided",
            "verifyStatus should be a boolean value"}
      [] OTHER ->
           {"W3c verifiable credential was not provided",
            "verifyStatus should be a boolean value"}

\* validationResult(request).array(): no message, one, or two in either order.
ValidationResults(handler) ==
    {<<>>} \cup {<<m>> : m \in ValidatorMessages(handler)}
           \cup UNION {{<<m, n>> : n \in ValidatorMessages(handler) \ {m}} :
                          m \in ValidatorMessages(handler)}

VerifyStatusInputs == {"true", "false", "1", Undefined}
PolicyInputs == {"true", "false", Undefined}
AgentOutcomes == {"result", "resultWithError", "throws"}

StatusOK == 200
StatusBadRequest == 400
StatusInternalServerError == 500

\* Variant: every value but 'false' turns the status check on (as the
\* publish parameter of revoke is read).
VerifyStatusOf_NotFalse(queryVerifyStatus) == queryVerifyStatus # "false"

\* const verifyStatus = request.query.verifyStatus === 'true' ? true : false
VerifyStatusOf(queryVerifyStatus) == queryVerifyStatus = "true"

\* Veramo.verifyCredential: the call made on the agent.
verifyCredential(verifyStatus, policy) ==
    IF verifyStatus
    THEN [method |-> "cheqdVerifyCredential", fetchList |-> "true", credentialStatus |-> policy]
    ELSE [method |-> "verifyCredential", fetchList |-> Undefined, credentialStatus |-> "false"]

\* Veramo.verifyPresentation: the call made on the agent.
verifyPresentation(verifyStatus, policy) ==
    IF verifyStatus
    THEN [method |-> "cheqdVerifyPresentation", fetchList |-> "true", credentialStatus |-> policy]
    ELSE [method |-> "verifyPresentation", fetchList |-> Undefined, credentialStatus |-> "false"]

\* The agent operation a handler invokes.
HandlerCall(handler, queryVerifyStatus, policy) ==
    CASE handler = "verify" -> verifyCredential(VerifyStatusOf(queryVerifyStatus), policy)
      [] handler = "verifyPresentation" ->
           verifyPresentation(VerifyStatusOf(queryVerifyStatus), policy)
      [] handler = "issue" ->
           [method |-> "issue_credential", fetchList |-> Undefined, credentialStatus |-> Undefined]
      [] handler = "revoke" ->
           [method |-> "revokeCredentials", fetchList |-> "true", credentialStatus |-> Undefined]
      [] handler = "suspend" ->
           [method |-> "suspendCredentials", fetchList |-> "true", credentialStatus |-> Undefined]
      [] handler = "reinstate" ->
           [method |-> "reinstateCredentials", fetchList |-> "true", credentialStatus |-> Undefined]

\* Variant: the handler does not look at the validation result.
Handle_NoValidation(handler, errors, queryVerifyStatus, policy) ==
    /\ http.pc = "idle"
    /\ http' = [IdleHttp EXCEPT !.pc = "calling", !.handler = handler, !.errors = errors,
                                !.verifyStatus = queryVerifyStatus, !.policy = policy,
                                !.call = HandlerCall(handler, queryVerifyStatus, policy),
                                !.calls = 1]
    /\ UNCHANGED <<ledger, req, ops, reserved, codec, pure>>

\* A handler of CredentialController up to its await of the agent.
Handle(handler, errors, queryVerifyStatus, policy) ==
    /\ http.pc = "idle"
    /\ http' = IF errors # <<>>
               THEN [IdleHttp EXCEPT !.pc = "responded", !.handler = handler,
                                     !.errors = errors,
                                     !.verifyStatus = queryVerifyStatus, !.policy = policy,
                                     !.status = StatusBadRequest,
                                     !.body = [error |-> errors[1], verified |-> ""]]
               ELSE [IdleHttp EXCEPT !.pc = "calling", !.handler = handler,
                                     !.errors = errors,
                                     !.verifyStatus = queryVerifyStatus, !.policy = policy,
                                     !.call = HandlerCall(handler, queryVerifyStatus, policy),
                                     !.calls = 1]
    /\ UNCHANGED <<ledger, req, ops, reserved, codec, pure>>

\* The rest of the handler: the agent returns or throws.
AgentReturns(outcome, verified) ==
    /\ http.pc = "calling"
    /\ http' = [http EXCEPT !.pc = "responded", !.outcome = outcome,
                   !.status = CASE outcome = "throws" -> StatusInternalServerError
                                [] outcome = "resultWithError" /\ http.handler \in VerifyHandlers ->
                                     StatusBadRequest
                                [] OTHER -> StatusOK,
                   !.body = CASE outcome = "throws" -> [error |-> "Error", verified |-> ""]
                              [] outcome = "resultWithError" ->
                                   [error |-> "Error", verified |-> verified]
                              [] OTHER -> [error |-> "", verified |-> verified]]
    /\ UNCHANGED <<ledger, req, ops, reserved, codec, pure>>

\* The response is sent; the next request can come.
Sent ==
    /\ http.pc = "responded"
    /\ http' = IdleHttp
    /\ UNCHANGED <<ledger, req, ops, reserved, codec, pure>>

NextHttp ==
    \/ \E h \in Handlers : \E e \in ValidationResults(h), v \in VerifyStatusInputs,
          p \in PolicyInputs : Handle(h, e, v, p)
    \/ \E o \in AgentOutcomes, v \in {"true", "false"} : AgentReturns(o, v)
    \/ Sent

SpecHttp == Init /\ [][NextHttp]_vars

StatusPathMethods == {"cheqdVerifyCredential", "cheqdVerifyPresentation"}

\* C25: a verification handler that calls the agent uses the status-list
\* method, with fetchList true, exactly when the query parameter
\* verifyStatus is 'true'; otherwise it calls the plain method with the
\* credentialStatus policy false, whatever policy the caller supplied.
C25_StatusCheckedIffVerifyStatus ==
    (http.handler \in VerifyHandlers /\ http.calls > 0) =>
        /\ (http.call.method \in StatusPathMethods) <=> (http.verifyStatus = "true")
        /\ http.verifyStatus = "true" => http.call.fetchList = "true"
        /\ http.verifyStatus # "true" => http.call.credentialStatus = "false"

\* C25 witness: verify without verifyStatus and with the policy
\* credentialStatus true called the plain method with the policy false.
C25_Witness ==
    /\ http.handler = "verify" /\ http.pc = "calling"
    /\ http.verifyStatus = Undefined /\ http.policy = "true"
    /\ http.call.method = "verifyCredential"
    /\ http.call.credentialStatus = "false"

\* C28: a request with validation messages is answered 400 with the first
\* message and no agent operation is invoked for it; when the agent throws
\* the answer is 500; a verify or verifyPresentation result that carries
\* an error is answered 400; 200 is answered only for a request that passed
\* validation and whose agent operation returned.
C28_ControllerAnswers ==
    /\ http.calls > 0 => http.errors = <<>>
    /\ http.pc = "responded" =>
          /\ http.errors # <<>> =>
                /\ http.status = StatusBadRequest
                /\ http.body.error = http.errors[1]
                /\ http.calls = 0
          /\ http.outcome = "throws" => http.status = StatusInternalServerError
          /\ (http.outcome = "resultWithError" /\ http.handler \in VerifyHandlers) =>
                http.status = StatusBadRequest /\ http.body.error # ""
          /\ http.status = StatusOK =>
                /\ http.errors = <<>> /\ http.calls = 1
                /\ http.outcome \in {"result", "resultWithError"}
                /\ http.handler \in VerifyHandlers => http.body.error = ""

\* C28 witness: a revoke request with two validation messages was answered
\* 400 with the first one and the agent was not called.
C28_Witness ==
    /\ http.pc = "responded" /\ http.handler = "revoke"
    /\ Len(http.errors) = 2
    /\ http.status = StatusBadRequest
    /\ http.body.error = http.errors[1]
    /\ http.calls = 0

\* C26: for a list created with purpose revocation, an index whose bit is
\* set in a published revision has its bit set in every later revision.
C26_RevocationIsTerminal ==
    \A k \in AllKeys : \A i, j \in 1..Version(k) :
        (i < j /\ ledger[k][1].type = RevocationType) =>
            \A n \in 0..(Len(ledger[k][i].bits) - 1) :
                getBit(ledger[k][i].bits, n) = 1 =>
                    /\ InRange(ledger[k][j].bits, n)
                    /\ getBit(ledger[k][j].bits, n) = 1

\* ------------------------------------------- updates with any statusAction
NextAction ==
    \/ \E k \in Keys, p \in PurposeInputs, n \in Lengths : CreateStatusList(k, p, n)
    \/ \E r \in SequentialReqs, k \in Keys, a \in ActionInputs, s \in IndexSets, p \in BOOLEAN :
          StartUpdate(r, k, a, s, p)
    \/ \E r \in Reqs : FetchOk(r)
    \/ \E r \in Reqs : FetchNotFound(r)
    \/ \E r \in Reqs, e \in TransientErrors : FetchFail(r, e)
    \/ \E r \in Reqs : Mutate(r)
    \/ \E r \in Reqs : PublishAck(r)
    \/ \E r \in Reqs, e \in TransientErrors : PublishFail(r, e)
    \/ \E r \in Reqs : Respond(r)

SpecAction == Init /\ [][NextAction]_vars

\* C27: an update whose action is not revoke, suspend or reinstate ends
\* as a failure that carries an error, without a call of the agent and
\* without a fetch.
C27_UnknownActionFails ==
    \A r \in Reqs :
        (IsUpdate(r) /\ req[r].pc # "idle" /\ req[r].action \notin StatusActions) =>
            /\ req[r].pc = "failed"
            /\ req[r].error # ""
            /\ req[r].method = Undefined
            /\ req[r].base = 0

\* ------------------------------------------ validateSpecCompliantPayload
\* A value that may be undefined: a string is kept as its ':' segments.
NoValue == [kind |-> "undefined", segs |-> <<>>]
StringOf(segs) == [kind |-> "string", segs |-> segs]

DocIds ==
    {NoValue, StringOf(<<>>), StringOf(<<"did", "cheqd", "testnet", "abc">>),
     StringOf(<<"did", "web", "example">>)}

\* !value for a string or undefined
Falsy(value) == value.kind = "undefined" \/ value.segs = <<>>

\* id.startsWith('did:cheqd:')
startsWithDidCheqd(id) ==
    /\ Len(id.segs) >= 3
    /\ id.segs[1] = "did"
    /\ id.segs[2] = "cheqd"

Ed255192020 == "Ed25519VerificationKey2020"
JWK == "JsonWebKey2020"
Ed255192018 == "Ed25519VerificationKey2018"

VerificationMethodItems ==
    {[type |-> Ed255192020, publicKeyMultibase |-> TRUE, publicKeyJwk |-> FALSE, publicKeyBase58 |-> FALSE],
     [type |-> Ed255192020, publicKeyMultibase |-> FALSE, publicKeyJwk |-> FALSE, publicKeyBase58 |-> TRUE],
     [type |-> JWK, publicKeyMultibase |-> FALSE, publicKeyJwk |-> TRUE, publicKeyBase58 |-> FALSE],
     [type |-> "Other", publicKeyMultibase |-> TRUE, publicKeyJwk |-> TRUE, publicKeyBase58 |-> TRUE]}

FirstItem == [type |-> Ed255192018, publicKeyMultibase |-> FALSE, publicKeyJwk |-> FALSE,
              publicKeyBase58 |-> TRUE]

\* didDocument.verificationMethod: undefined, not an array, or an array.
VerificationMethodInputs ==
    {[kind |-> "undefined", items |-> <<>>], [kind |-> "object", items |-> <<>>],
     [kind |-> "array", items |-> <<>>]}
    \cup {[kind |-> "array", items |-> <<vm>>] : vm \in VerificationMethodItems}
    \cup {[kind |-> "array", items |-> <<FirstItem, vm>>] : vm \in VerificationMethodItems}

GoodService == [serviceEndpoint |-> TRUE, id |-> TRUE, type |-> TRUE]
BadService == [serviceEndpoint |-> TRUE, id |-> FALSE, type |-> TRUE]

ServiceInputs ==
    {[kind |-> "undefined", items |-> <<>>], [kind |-> "array", items |-> <<GoodService>>],
     [kind |-> "array", items |-> <<BadService>>],
     [kind |-> "array", items |-> <<GoodService, BadService>>]}

DIDDocuments ==
    {[id |-> i, verificationMethod |-> vm, service |-> sv] :
        i \in DocIds, vm \in VerificationMethodInputs, sv \in ServiceInputs}

isValidService(didDocument) ==
    IF didDocument.service.kind = "undefined" THEN TRUE
    ELSE \A n \in 1..Len(didDocument.service.items) :
            LET sv == didDocument.service.items[n]
            IN sv.serviceEndpoint /\ sv.id /\ sv.type

isValidVerificationMethod(didDocument) ==
    IF didDocument.verificationMethod.kind = "undefined" THEN FALSE
    ELSE \A n \in 1..Len(didDocument.verificationMethod.items) :
            LET vm == didDocument.verificationMethod.items[n]
            IN CASE vm.type = Ed255192020 -> vm.publicKeyMultibase
                 [] vm.type = JWK -> vm.publicKeyJwk
                 [] vm.type = Ed255192018 -> vm.publicKeyBase58
                 [] OTHER -> FALSE

ValidResult == [kind |-> "return", valid |-> TRUE, error |-> ""]
InvalidResult(error) == [kind |-> "return", valid |-> FALSE, error |-> error]
TypeErrorThrown == [kind |-> "throw", valid |-> FALSE, error |-> "TypeError"]

\* The checks that follow the check of id.
validateRest(didDocument) ==
    IF didDocument.verificationMethod.kind = "undefined"
    THEN InvalidResult("verificationMethod is required")
    ELSE IF didDocument.verificationMethod.kind # "array"
    THEN InvalidResult("verificationMethod must be an array")
    ELSE IF Len(didDocument.verificationMethod.items) = 0
    THEN InvalidResult("verificationMethod must be not be empty")
    ELSE IF ~isValidVerificationMethod(didDocument)
    THEN InvalidResult("verificationMethod publicKey is Invalid")
    ELSE IF ~isValidService(didDocument) THEN InvalidResult("Service is Invalid")
    ELSE ValidResult

\* if (!didDocument.id && !didDocument.id.startsWith('did:cheqd:')) ...:
\* the right operand is evaluated only for a falsy id, and calling
\* startsWith on undefined throws a TypeError.
validateSpecCompliantPayload(didDocument) ==
    IF Falsy(didDocument.id)
    THEN IF didDocument.id.kind = "undefined" THEN TypeErrorThrown
         ELSE IF ~startsWithDidCheqd(didDocument.id) THEN InvalidResult("id is required")
         ELSE validateRest(didDocument)
    ELSE validateRest(didDocument)

PayloadInit ==
    /\ ledger = [k \in AllKeys |-> <<>>]
    /\ req = [r \in Reqs |-> IdleReq]
    /\ ops = 0
    /\ reserved = [k \in AllKeys |-> {}]
    /\ http = IdleHttp
    /\ codec = NoCodec
    /\ pure \in {[pc |-> "input", didDocument |-> d, result |-> ValidResult] : d \in DIDDocuments}

Validate ==
    /\ pure.pc = "input"
    /\ pure' = [pure EXCEPT !.pc = "validated",
                            !.result = validateSpecCompliantPayload(pure.didDocument)]
    /\ UNCHANGED <<ledger, req, ops, reserved, codec, http>>

NextPayload == Validate

SpecPayload == PayloadInit /\ [][NextPayload]_vars

\* C29: for a document whose id is missing or empty the result is
\* {valid: false, error: 'id is required'}, and a document whose id does
\* not start with 'did:cheqd:' is never found valid.
C29_IdIsRequired ==
    pure.pc = "validated" =>
        /\ Falsy(pure.didDocument.id) => pure.result = InvalidResult("id is required")
        /\ ~startsWithDidCheqd(pure.didDocument.id) =>
              ~(pure.result.kind = "return" /\ pure.result.valid)

\* ----------------------------------- purpose of a created and published list
NameInputs == {Undefined, "list1"}
EncodingInputs == Encodings \cup {Undefined}

\* Veramo.createStatusList2021: the arguments handed to the agent, or the
\* error thrown.
CreateArgs(name, statusPurpose, encoding) ==
    IF name = Undefined
    THEN [error |-> "StatusList name is required", statusListName |-> Undefined,
          statusPurpose |-> Undefined, statusListEncoding |-> Undefined]
    ELSE [error |-> "", statusListName |-> name,
          statusPurpose |-> createStatusList2021(statusPurpose),
          statusListEncoding |-> IF encoding = Undefined THEN "base64url" ELSE encoding]

\* Veramo.broadcastStatusList2021: the payload handed to the agent, or the
\* error thrown.
BroadcastArgs(name, data, statusPurpose) ==
    IF data = <<>>
    THEN [error |-> "StatusList data is required", name |-> name, resourceType |-> Undefined]
    ELSE [error |-> "", name |-> name, resourceType |-> broadcastStatusList2021(statusPurpose)]

PurposeInit ==
    /\ ledger = [k \in AllKeys |-> <<>>]
    /\ req = [r \in Reqs |-> IdleReq]
    /\ ops = 0
    /\ reserved = [k \in AllKeys |-> {}]
    /\ http = IdleHttp
    /\ codec = NoCodec
    /\ pure \in {[pc |-> "input", name |-> n, statusPurpose |-> p, encoding |-> e, data |-> d,
                  created |-> CreateArgs(Undefined, Undefined, Undefined),
                  published |-> BroadcastArgs(Undefined, <<>>, Undefined)] :
                    n \in NameInputs, p \in PurposeInputs, e \in EncodingInputs, d \in Payloads}

\* createStatusList2021 is called for the list.
CreateCall ==
    /\ pure.pc = "input"
    /\ pure' = [pure EXCEPT !.pc = "created",
                            !.created = CreateArgs(pure.name, pure.statusPurpose, pure.encoding)]
    /\ UNCHANGED <<ledger, req, ops, reserved, codec, http>>

\* broadcastStatusList2021 is called for the same list with the same statusPurpose.
BroadcastCall ==
    /\ pure.pc = "created"
    /\ pure' = [pure EXCEPT !.pc = "published",
                            !.published = BroadcastArgs(pure.name, pure.data, pure.statusPurpose)]
    /\ UNCHANGED <<ledger, req, ops, reserved, codec, http>>

NextPurpose == CreateCall \/ BroadcastCall

SpecPurpose == PurposeInit /\ [][NextPurpose]_vars

\* C30: when a list was created and then published with the same
\* statusPurpose input, the resource type of the published payload is the
\* type of the purpose the list was created with.
C30_CreateAndPublishAgree ==
    (pure.pc = "published" /\ pure.created.error = "" /\ pure.published.error = "") =>
        pure.published.resourceType = TypeOfPurpose(pure.created.statusPurpose)

====
